---- MODULE Spec2Model ----
(***************************************************************************)
(* Model of app.py, the GSS gender-pay-gap dashboard.                      *)
(*                                                                         *)
(* The module-level code prepares the data frame gss_clean (column         *)
(* selection, rename, age clean-up), builds a layout with two dropdowns    *)
(* ('category', 'question') and registers two callbacks, title and         *)
(* user_bar, each taking the value of both dropdowns as input.             *)
(*                                                                         *)
(* Three specifications are defined:                                       *)
(*   SpecPrep  - the start-up statements of lines 23-39, one per step,     *)
(*               from raw frames with varied age cells;                    *)
(*   Spec      - the served page: dropdown events and the two callbacks;   *)
(*   SpecTitle - the title callback applied to arbitrary arguments.        *)
(***************************************************************************)
EXTENDS Integers, Sequences, FiniteSets, TLC

VARIABLES
    pc,               \* position of the module-level code / server
    gss,              \* the frame returned by pd.read_csv (line 16)
    gss_clean,        \* the prepared frame (lines 23-39)
    category,         \* value property of Dropdown 'category'
    question,         \* value property of Dropdown 'question'
    title_children,   \* children property of H3 'title'
    user_bar_figure,  \* figure property of Graph 'user_bar'
    pending,          \* callbacks whose inputs changed and that have not run yet
    last_error        \* per callback: exception raised by its last run, "" if none

vars == <<pc, gss, gss_clean, category, question, title_children,
          user_bar_figure, pending, last_error>>

-----------------------------------------------------------------------------
(* Bounds *)

MaxRows == 2       \* rows of the frame behind the served page
MaxRawRows == 3    \* rows of the raw frame in the start-up specification

-----------------------------------------------------------------------------
(* Values *)

\* Python's None, as the value of a component property
None == "<None>"

\* A cell of a data frame: a string, an int, a float or NaN (missing)
StrCell(s) == [k |-> "str", s |-> s, n |-> 0]
IntCell(n) == [k |-> "int", s |-> "", n |-> n]
FloatCell(n) == [k |-> "float", s |-> "", n |-> n]
NaN == [k |-> "nan", s |-> "", n |-> 0]

\* Result of a call: a value, or the name of the exception raised
Ok(v) == [ok |-> TRUE, value |-> v, error |-> ""]
Raise(e) == [ok |-> FALSE, value |-> None, error |-> e]

Range(f) == {f[i] : i \in DOMAIN f}

-----------------------------------------------------------------------------
(* Start-up: lines 20-39 *)

mycols ==
    <<"id", "wtss", "sex", "educ", "region", "age", "coninc",
      "prestg10", "mapres10", "papres10", "sei10", "satjob",
      "fechld", "fefam", "fepol", "fepresch", "meovrwrk">>

\* rename_map with the target of 'fefam' misspelt
rename_map_typo ==
    [wtss |-> "weight",
     educ |-> "education",
     coninc |-> "income",
     prestg10 |-> "job_prestige",
     mapres10 |-> "mother_job_prestige",
     papres10 |-> "father_job_prestige",
     sei10 |-> "socioeconomic_index",
     fechld |-> "relationship",
     fefam |-> "male_breadwiner",
     fehire |-> "hire_women",
     fejobaff |-> "preference_hire_women",
     fepol |-> "men_bettersuited",
     fepresch |-> "child_suffer",
     meovrwrk |-> "men_overwork"]

\* the dict passed to rename (lines 24-37)
rename_map ==
    [wtss |-> "weight",
     educ |-> "education",
     coninc |-> "income",
     prestg10 |-> "job_prestige",
     mapres10 |-> "mother_job_prestige",
     papres10 |-> "father_job_prestige",
     sei10 |-> "socioeconomic_index",
     fechld |-> "relationship",
     fefam |-> "male_breadwinner",
     fehire |-> "hire_women",
     fejobaff |-> "preference_hire_women",
     fepol |-> "men_bettersuited",
     fepresch |-> "child_suffer",
     meovrwrk |-> "men_overwork"]

\* rename(..., axis=1) on one column label: labels absent from the dict are kept
RenameLabel(c) == IF c \in DOMAIN rename_map THEN rename_map[c] ELSE c

\* gss[mycols] (line 23): the listed columns, in the listed order;
\* KeyError when one of them is not a column of the frame
SelectColumns(df, cols) ==
    IF Range(cols) \subseteq Range(df.columns)
    THEN Ok([columns |-> cols,
             data |-> [i \in DOMAIN df.data |->
                          [c \in Range(cols) |-> df.data[i][c]]]])
    ELSE Raise("KeyError")

\* gss_clean.rename({...}, axis=1) (lines 24-37)
Rename(df) ==
    LET old(nc) == CHOOSE c \in Range(df.columns) : RenameLabel(c) = nc
        newcols == [i \in DOMAIN df.columns |-> RenameLabel(df.columns[i])]
    IN [columns |-> newcols,
        data |-> [i \in DOMAIN df.data |->
                     [nc \in Range(newcols) |-> df.data[i][old(nc)]]]]

\* ReplaceAge with a key that matches no cell ('89 or Older')
ReplaceAge_wrong_key(df) ==
    [df EXCEPT !.data =
        [i \in DOMAIN df.data |->
            [df.data[i] EXCEPT !["age"] =
                IF @ = StrCell("89 or Older") THEN StrCell("89") ELSE @]]]

\* gss_clean.age.replace({'89 or older':'89'}) (line 38)
ReplaceAge(df) ==
    [df EXCEPT !.data =
        [i \in DOMAIN df.data |->
            [df.data[i] EXCEPT !["age"] =
                IF @ = StrCell("89 or older") THEN StrCell("89") ELSE @]]]

\* float(str) for the strings of the model: surrounding blanks are stripped
\* and a non-empty run of decimal digits is read digit by digit; any other
\* string raises ValueError.  (Signs, fractions and exponents do not occur
\* in the age strings enumerated below.)
Digits == "0123456789"
IsDigit(ch) == \E d \in 1..10 : SubSeq(Digits, d, d) = ch
DigitVal(ch) == (CHOOSE d \in 1..10 : SubSeq(Digits, d, d) = ch) - 1

RECURSIVE Strip(_)
Strip(s) ==
    IF Len(s) = 0 THEN s
    ELSE IF SubSeq(s, 1, 1) = " " THEN Strip(SubSeq(s, 2, Len(s)))
    ELSE IF SubSeq(s, Len(s), Len(s)) = " " THEN Strip(SubSeq(s, 1, Len(s) - 1))
    ELSE s

RECURSIVE ParseDigits(_, _, _)
ParseDigits(s, i, acc) ==
    IF i > Len(s) THEN Ok(acc)
    ELSE IF IsDigit(SubSeq(s, i, i))
         THEN ParseDigits(s, i + 1, acc * 10 + DigitVal(SubSeq(s, i, i)))
         ELSE Raise("ValueError")

ParseFloat(s) ==
    LET t == Strip(s)
    IN IF Len(t) = 0 THEN Raise("ValueError") ELSE ParseDigits(t, 1, 0)

\* conversion of one cell by astype('float'): NaN stays NaN, numbers become
\* floats, strings are parsed
CellToFloat(cell) ==
    CASE cell.k = "nan" -> Ok(NaN)
      [] cell.k = "int" -> Ok(FloatCell(cell.n))
      [] cell.k = "float" -> Ok(cell)
      [] OTHER -> LET r == ParseFloat(cell.s)
                  IN IF r.ok THEN Ok(FloatCell(r.value)) ELSE r

\* gss_clean.age.astype('float') (line 39): the whole column is converted,
\* or the first cell that cannot be raises ValueError
AstypeFloat(df) ==
    IF \A i \in DOMAIN df.data : CellToFloat(df.data[i]["age"]).ok
    THEN Ok([df EXCEPT !.data =
                [i \in DOMAIN df.data |->
                    [df.data[i] EXCEPT !["age"] = CellToFloat(@).value]]])
    ELSE Raise("ValueError")

\* lines 23-39 as a whole
Prepare(raw) ==
    LET sel == SelectColumns(raw, mycols)
    IN IF ~sel.ok THEN sel
       ELSE AstypeFloat(ReplaceAge(Rename(sel.value)))

-----------------------------------------------------------------------------
(* Frames the model starts from *)

\* columns of the csv file: those of mycols and the two further columns the
\* rename dict names (lines 33-34)
RawColumns == mycols \o <<"fehire", "fejobaff">>

\* one respondent of the csv file; the five agree/disagree items share one
\* response
RawRow(sex, educ, region, age, satjob, fe) ==
    [c \in Range(RawColumns) |->
        CASE c = "sex" -> sex
          [] c = "educ" -> educ
          [] c = "region" -> region
          [] c = "age" -> age
          [] c = "satjob" -> satjob
          [] c \in {"fechld", "fefam", "fepol", "fepresch", "meovrwrk",
                    "fehire", "fejobaff"} -> fe
          [] OTHER -> IntCell(1)]

\* respondents behind the served page: one complete, one with education and
\* satjob missing
ServeRows ==
    {RawRow(StrCell("male"), IntCell(12), StrCell("pacific"), StrCell("18"),
            StrCell("very satisfied"), StrCell("agree")),
     RawRow(StrCell("female"), NaN, StrCell("new england"),
            StrCell("89 or older"), NaN, StrCell("disagree"))}

\* age cells of the raw frames of the start-up specification
AgeCells ==
    {StrCell("18"), StrCell("89 or older"), NaN, StrCell(" 42 "),
     StrCell("abc"), StrCell("")}

PrepRows ==
    {RawRow(StrCell("male"), IntCell(12), StrCell("pacific"), a,
            StrCell("very satisfied"), StrCell("agree")) : a \in AgeCells}

SeqsUpTo(S, n) == UNION {[1..k -> S] : k \in 0..n}

Frame(rows) == [columns |-> RawColumns, data |-> rows]

NoFrame == [columns |-> <<>>, data |-> <<>>]

-----------------------------------------------------------------------------
(* Layout: lines 174-198 *)

\* the 'value' entries of the options of Dropdown 'category' (lines 175-177)
CategoryOptions == {"sex", "education", "region"}

\* the 'value' entries of the options of Dropdown 'question' (lines 185-196)
QuestionOptions ==
    {"satjob", "male_breadwinner", "relationship", "men_bettersuited",
     "child_suffer", "men_overwork"}

\* value = 'sex' (line 179) and value = 'satjob' (line 198)
CategoryDefault == "sex"
QuestionDefault == "satjob"

NoFigure == [data |-> {}, layout |-> [xaxis_title |-> None]]

-----------------------------------------------------------------------------
(* Callback title: lines 295-308 *)

q ==
    [satjob |-> "On the whole, how satisfied are you with the work you do?",
     relationship |-> "A working mother can establish just as warm and secure a relationship with her children as a mother who does not work.",
     male_breadwinner |-> "It is much better for everyone involved if the man is the achiever outside the home and the woman takes care of the home and family.",
     men_bettersuited |-> "Most men are better suited emotionally for politics than are most women.",
     child_suffer |-> "A preschool child is likely to suffer if his or her mother works.",
     men_overwork |-> "Family life often suffers because men concentrate too much on their work"]

c ==
    [sex |-> "sex",
     education |-> "years of education",
     region |-> "region"]

\* title without the quotes around the question text
title_unquoted(cat, qst) ==
    IF qst \notin DOMAIN q THEN Raise("KeyError")
    ELSE IF cat \notin DOMAIN c THEN Raise("KeyError")
    ELSE Ok(q[qst] \o " by " \o c[cat])

\* title that prints the category value instead of its label
title_raw_category(cat, qst) ==
    IF qst \notin DOMAIN q THEN Raise("KeyError")
    ELSE IF cat \notin DOMAIN c THEN Raise("KeyError")
    ELSE Ok("\"" \o q[qst] \o "\" by " \o cat)

\* title with dict.get(key, '') in place of the subscripts
title_get_default(cat, qst) ==
    Ok("\"" \o (IF qst \in DOMAIN q THEN q[qst] ELSE "")
            \o "\" by " \o (IF cat \in DOMAIN c THEN c[cat] ELSE ""))

\* f'"{q[question]}" by {c[category]}': the subscripts are evaluated left to
\* right and a key that is not in the dict raises KeyError
title(cat, qst) ==
    IF qst \notin DOMAIN q THEN Raise("KeyError")
    ELSE IF cat \notin DOMAIN c THEN Raise("KeyError")
    ELSE Ok("\"" \o q[qst] \o "\" by " \o c[cat])

-----------------------------------------------------------------------------
(* Callback user_bar: lines 314-335 *)

\* KeptRows that drops a row only when its question cell is missing
KeptRows_question_only(df, cat, qst) ==
    {i \in DOMAIN df.data : df.data[i][qst] # NaN}

\* rows of df whose cells in both columns are not NaN
\* (value_counts drops a row with a missing cell, dropna=True)
KeptRows(df, cat, qst) ==
    {i \in DOMAIN df.data : df.data[i][cat] # NaN /\ df.data[i][qst] # NaN}

\* gss_clean[[category, question]].value_counts().reset_index() (line 315):
\* one row per distinct pair of cells with the number of its occurrences.
\* The table is a set of rows: the order of the rows is not modelled.
value_counts(df, cat, qst) ==
    IF ~({cat, qst} \subseteq Range(df.columns)) THEN Raise("KeyError")
    ELSE LET kept == KeptRows(df, cat, qst)
             pairs == {<<df.data[i][cat], df.data[i][qst]>> : i \in kept}
         IN Ok({[x |-> p[1], color |-> p[2],
                 count |-> Cardinality({i \in kept :
                               <<df.data[i][cat], df.data[i][qst]>> = p})]
                : p \in pairs})

\* user_bar that raises when the frequency table has no row
user_bar_raise_on_empty(df, cat, qst) ==
    LET vc == value_counts(df, cat, qst)
    IN IF ~vc.ok THEN vc
       ELSE IF vc.value = {} THEN Raise("ValueError")
       ELSE LET bars == vc.value
            IN Ok([data |-> {[name |-> v.s,
                              bars |-> {[x |-> b.x, y |-> b.count] :
                                          b \in {r \in bars : r.color = v}}]
                             : v \in {r.color : r \in bars}},
                   layout |-> [barmode |-> "group",
                               height |-> 400,
                               width |-> 630,
                               hover_x |-> cat,
                               yaxis_title |-> "Frequency",
                               legend_title |-> "Response",
                               legend |-> [yanchor |-> "top", xanchor |-> "right"],
                               xaxis_title |-> ""]])

\* px.bar(bars, x = category, y = 'count', color = question, ...) followed by
\* update_layout (lines 316-335): one trace per distinct response, one bar per
\* row of the table; the layout does not depend on the question
user_bar(df, cat, qst) ==
    LET vc == value_counts(df, cat, qst)
    IN IF ~vc.ok THEN vc
       ELSE LET bars == vc.value
            IN Ok([data |-> {[name |-> v.s,
                              bars |-> {[x |-> b.x, y |-> b.count] :
                                          b \in {r \in bars : r.color = v}}]
                             : v \in {r.color : r \in bars}},
                   layout |-> [barmode |-> "group",
                               height |-> 400,
                               width |-> 630,
                               hover_x |-> cat,
                               yaxis_title |-> "Frequency",
                               legend_title |-> "Response",
                               legend |-> [yanchor |-> "top", xanchor |-> "right"],
                               xaxis_title |-> ""]])

-----------------------------------------------------------------------------
(* Actions *)

Callbacks == {"title", "user_bar"}

\* the user picks an option of Dropdown 'category'; both callbacks have this
\* property as Input (lines 290, 311)
SelectCategory ==
    /\ pc = "serving"
    /\ \E v \in CategoryOptions :
          /\ v # category
          /\ category' = v
    /\ pending' = Callbacks
    /\ UNCHANGED <<pc, gss, gss_clean, question, title_children,
                   user_bar_figure, last_error>>

\* the user picks an option of Dropdown 'question' (lines 291, 312)
SelectQuestion ==
    /\ pc = "serving"
    /\ \E v \in QuestionOptions :
          /\ v # question
          /\ question' = v
    /\ pending' = Callbacks
    /\ UNCHANGED <<pc, gss, gss_clean, category, title_children,
                   user_bar_figure, last_error>>

\* the user removes the selected value with the clear button: neither
\* Dropdown is constructed with clearable = False (lines 174-179)
ClearCategory ==
    /\ pc = "serving"
    /\ category # None
    /\ category' = None
    /\ pending' = Callbacks
    /\ UNCHANGED <<pc, gss, gss_clean, question, title_children,
                   user_bar_figure, last_error>>

\* the same for Dropdown 'question' (lines 184-198)
ClearQuestion ==
    /\ pc = "serving"
    /\ question # None
    /\ question' = None
    /\ pending' = Callbacks
    /\ UNCHANGED <<pc, gss, gss_clean, category, title_children,
                   user_bar_figure, last_error>>

\* the callback title runs (lines 289-308); its return value becomes the
\* children of H3 'title', an exception leaves the component as it is
TitleCallback ==
    /\ pc = "serving"
    /\ "title" \in pending
    /\ LET r == title(category, question)
       IN /\ title_children' = IF r.ok THEN r.value ELSE title_children
          /\ last_error' = [last_error EXCEPT !["title"] = r.error]
    /\ pending' = pending \ {"title"}
    /\ UNCHANGED <<pc, gss, gss_clean, category, question, user_bar_figure>>

\* UserBarCallback that drops the incomplete rows from gss_clean itself
\* (dropna(inplace = True) on the global frame)
UserBarCallback_inplace ==
    /\ pc = "serving"
    /\ "user_bar" \in pending
    /\ LET r == user_bar(gss_clean, category, question)
       IN /\ user_bar_figure' = IF r.ok THEN r.value ELSE user_bar_figure
          /\ last_error' = [last_error EXCEPT !["user_bar"] = r.error]
          /\ gss_clean' =
                IF r.ok
                THEN [gss_clean EXCEPT !.data =
                        SelectSeq(gss_clean.data,
                                  LAMBDA row : row[category] # NaN /\ row[question] # NaN)]
                ELSE gss_clean
    /\ pending' = pending \ {"user_bar"}
    /\ UNCHANGED <<pc, gss, category, question, title_children>>

\* the callback user_bar runs (lines 310-335)
UserBarCallback ==
    /\ pc = "serving"
    /\ "user_bar" \in pending
    /\ LET r == user_bar(gss_clean, category, question)
       IN /\ user_bar_figure' = IF r.ok THEN r.value ELSE user_bar_figure
          /\ last_error' = [last_error EXCEPT !["user_bar"] = r.error]
    /\ pending' = pending \ {"user_bar"}
    /\ UNCHANGED <<pc, gss, gss_clean, category, question, title_children>>

\* line 23
StepSelect ==
    /\ pc = "select"
    /\ LET r == SelectColumns(gss, mycols)
       IN /\ gss_clean' = IF r.ok THEN r.value ELSE gss_clean
          /\ pc' = IF r.ok THEN "rename" ELSE "aborted"
    /\ UNCHANGED <<gss, category, question, title_children, user_bar_figure,
                   pending, last_error>>

\* lines 24-37
StepRename ==
    /\ pc = "rename"
    /\ gss_clean' = Rename(gss_clean)
    /\ pc' = "replace"
    /\ UNCHANGED <<gss, category, question, title_children, user_bar_figure,
                   pending, last_error>>

\* line 38
StepReplace ==
    /\ pc = "replace"
    /\ gss_clean' = ReplaceAge(gss_clean)
    /\ pc' = "astype"
    /\ UNCHANGED <<gss, category, question, title_children, user_bar_figure,
                   pending, last_error>>

\* line 39; an exception at module level ends the process before app.run
StepAstype ==
    /\ pc = "astype"
    /\ LET r == AstypeFloat(gss_clean)
       IN /\ gss_clean' = IF r.ok THEN r.value ELSE gss_clean
          /\ pc' = IF r.ok THEN "serving" ELSE "aborted"
    /\ UNCHANGED <<gss, category, question, title_children, user_bar_figure,
                   pending, last_error>>

-----------------------------------------------------------------------------
(* Specifications *)

\* component properties as the layout sets them (lines 167, 179, 198, 205);
\* the page load requests both callbacks
LayoutInit ==
    /\ category = CategoryDefault
    /\ question = QuestionDefault
    /\ title_children = None
    /\ user_bar_figure = NoFigure
    /\ pending = Callbacks
    /\ last_error = [cb \in Callbacks |-> ""]

\* the served page: start-up has completed on a frame of ServeRows
Init ==
    /\ pc = "serving"
    /\ gss \in {Frame(rows) : rows \in SeqsUpTo(ServeRows, MaxRows)}
    /\ gss_clean = Prepare(gss).value
    /\ LayoutInit

Next ==
    \/ SelectCategory
    \/ SelectQuestion
    \/ ClearCategory
    \/ ClearQuestion
    \/ TitleCallback
    \/ UserBarCallback

Spec == Init /\ [][Next]_vars

\* start-up, statement by statement
InitPrep ==
    /\ pc = "select"
    /\ gss \in {Frame(rows) : rows \in SeqsUpTo(PrepRows, MaxRawRows)}
    /\ gss_clean = NoFrame
    /\ LayoutInit

NextPrep ==
    \/ StepSelect
    \/ StepRename
    \/ StepReplace
    \/ StepAstype

SpecPrep == InitPrep /\ [][NextPrep]_vars

\* arguments a request to the title callback may carry
CategoryInputs == CategoryOptions \cup {None, "age", "Sex"}
QuestionInputs == QuestionOptions \cup {None, "fechld", "income"}

InitTitle ==
    /\ pc = "serving"
    /\ gss = Frame(<<>>)
    /\ gss_clean = Prepare(gss).value
    /\ category \in CategoryInputs
    /\ question \in QuestionInputs
    /\ title_children = None
    /\ user_bar_figure = NoFigure
    /\ pending = {"title"}
    /\ last_error = [cb \in Callbacks |-> ""]

NextTitle == TitleCallback

SpecTitle == InitTitle /\ [][NextTitle]_vars

TypeOK ==
    /\ pc \in {"select", "rename", "replace", "astype", "serving", "aborted"}
    /\ pending \subseteq Callbacks
    /\ DOMAIN last_error = Callbacks

-----------------------------------------------------------------------------
(* Properties *)

ValidSelection == category \in CategoryOptions /\ question \in QuestionOptions

RECURSIVE SumY(_)
SumY(bars) ==
    IF bars = {} THEN 0
    ELSE LET b == CHOOSE b \in bars : TRUE IN b.y + SumY(bars \ {b})

RECURSIVE SumCounts(_)
SumCounts(traces) ==
    IF traces = {} THEN 0
    ELSE LET t == CHOOSE t \in traces : TRUE
         IN SumY(t.bars) + SumCounts(traces \ {t})

\* number of records whose cells in the two selected columns are both present
NonMissing(df, cat, qst) ==
    Cardinality({i \in 1..Len(df.data) :
                    df.data[i][cat].k # "nan" /\ df.data[i][qst].k # "nan"})

\* C1: for every valid (category, question) the title callback returns a
\* non-empty string made of a double quote, the question text of table q, a
\* double quote, " by " and the category label of table c; for (sex, satjob)
\* it is "On the whole, how satisfied are you with the work you do?" by sex.
C1_TitleForm ==
    ("title" \notin pending /\ ValidSelection) =>
        LET t == title_children
            qt == q[question]
        IN /\ last_error["title"] = ""
           /\ t # None
           /\ Len(t) > 0
           /\ SubSeq(t, 1, 1) = "\""
           /\ SubSeq(t, 2, Len(qt) + 1) = qt
           /\ SubSeq(t, Len(qt) + 2, Len(t)) = "\" by " \o c[category]
           /\ (category = "sex" /\ question = "satjob") =>
                 t = "\"On the whole, how satisfied are you with the work you do?\" by sex"

C1_Witness ==
    /\ "title" \notin pending
    /\ category = "sex"
    /\ question = "satjob"
    /\ title_children =
          "\"On the whole, how satisfied are you with the work you do?\" by sex"

\* C2: the counts of the frequency table behind the displayed bar chart sum
\* to the number of records whose category and question cells are both
\* present.
C2_CountsSum ==
    ("user_bar" \notin pending /\ ValidSelection) =>
        /\ last_error["user_bar"] = ""
        /\ SumCounts(user_bar_figure.data) =
              NonMissing(gss_clean, category, question)

C2_Witness ==
    /\ "user_bar" \notin pending
    /\ ValidSelection
    /\ Len(gss_clean.data) = 2
    /\ SumCounts(user_bar_figure.data) = 1
    /\ NonMissing(gss_clean, category, question) = 1

\* C3: both dropdown values are always one of their options.
C3_SelectionValid == ValidSelection

\* C4: the displayed title and the displayed bar chart always belong to the
\* same selection, and once the callbacks of an event have run they belong
\* to the current one.
C4_NoPartialUpdate ==
    LET t == title(category, question)
        f == user_bar(gss_clean, category, question)
        titleCurrent == t.ok /\ title_children = t.value
        figureCurrent == f.ok /\ user_bar_figure = f.value
    IN /\ (title_children # None /\ user_bar_figure # NoFigure) =>
              (titleCurrent <=> figureCurrent)
       /\ pending = {} => (titleCurrent /\ figureCurrent)

\* C5: with a category or a question outside its options (None included) the
\* title callback raises and no title is returned or displayed.
C5_InvalidRaises ==
    ("title" \notin pending /\ ~ValidSelection) =>
        /\ last_error["title"] # ""
        /\ title_children = None

C5_Witness ==
    /\ "title" \notin pending
    /\ category = None
    /\ question = "satjob"
    /\ last_error["title"] = "KeyError"

BadAges == {StrCell("abc"), StrCell("")}

\* C6 as stated: an age that cannot be converted becomes the missing marker
\* and start-up is never aborted.
C6_NeverAborts ==
    /\ pc # "aborted"
    /\ pc = "serving" =>
          \A i \in 1..Len(gss.data) :
             gss.data[i]["age"] \in BadAges => gss_clean.data[i]["age"] = NaN

\* C6 amended: "89 or older" becomes 89.0, a numeric string its value, a
\* missing age stays missing; start-up is aborted exactly when some age
\* string cannot be converted.
C6_AgeConversion ==
    LET bad == \E i \in 1..Len(gss.data) : gss.data[i]["age"] \in BadAges
    IN /\ pc = "aborted" => bad
       /\ pc = "serving" =>
             /\ ~bad
             /\ Len(gss_clean.data) = Len(gss.data)
             /\ \A i \in 1..Len(gss.data) :
                   LET a == gss.data[i]["age"]
                       b == gss_clean.data[i]["age"]
                   IN /\ b.k \in {"float", "nan"}
                      /\ a = StrCell("89 or older") => b = FloatCell(89)
                      /\ a = StrCell("18") => b = FloatCell(18)
                      /\ a = StrCell(" 42 ") => b = FloatCell(42)
                      /\ a = NaN <=> b = NaN

C6_Witness ==
    /\ pc = "serving"
    /\ \E i \in 1..Len(gss.data) :
          /\ gss.data[i]["age"] = StrCell("89 or older")
          /\ gss_clean.data[i]["age"] = FloatCell(89)
    /\ \E i \in 1..Len(gss.data) : gss_clean.data[i]["age"] = NaN

\* C7: when no record has both selected cells present, the bar chart callback
\* does not fail and the chart it returns has no bar.
C7_EmptyTable ==
    ("user_bar" \notin pending /\ ValidSelection
        /\ NonMissing(gss_clean, category, question) = 0) =>
        /\ last_error["user_bar"] = ""
        /\ user_bar_figure # NoFigure
        /\ user_bar_figure.layout.hover_x = category
        /\ user_bar_figure.data = {}

C7_Witness ==
    /\ "user_bar" \notin pending
    /\ ValidSelection
    /\ Len(gss_clean.data) > 0
    /\ NonMissing(gss_clean, category, question) = 0
    /\ user_bar_figure.data = {}
    /\ user_bar_figure.layout.hover_x = category

\* C8: for a fixed question the titles of all categories share the quoted
\* question text and differ only in the label after " by "; for a fixed
\* category the titles of all questions end in the same " by <label>".
C8_TitleFrame ==
    ("title" \notin pending /\ ValidSelection) =>
        LET t == title_children
            n == Len(q[question]) + 2
            m == Len(c[category]) + 4
        IN /\ \A c2 \in CategoryOptions :
                 LET t2 == title(c2, question).value
                 IN /\ SubSeq(t2, 1, n) = SubSeq(t, 1, n)
                    /\ SubSeq(t2, n + 1, Len(t2)) = " by " \o c[c2]
                    /\ SubSeq(t, n + 1, Len(t)) = " by " \o c[category]
           /\ \A q2 \in QuestionOptions :
                 LET t3 == title(category, q2).value
                 IN /\ SubSeq(t3, Len(t3) - m + 1, Len(t3)) =
                          SubSeq(t, Len(t) - m + 1, Len(t))
                    /\ SubSeq(t3, 1, Len(t3) - m) = "\"" \o q[q2] \o "\""

C8_Witness ==
    /\ "title" \notin pending
    /\ category = "region"
    /\ question = "satjob"
    /\ title_children =
          "\"On the whole, how satisfied are you with the work you do?\" by region"

\* C9: no step of the served page changes gss_clean, and every run of the bar
\* chart callback returns the chart of that unchanged frame for its arguments.
C9_DatasetUnchanged ==
    [][/\ gss_clean' = gss_clean
       /\ ("user_bar" \in pending /\ "user_bar" \notin pending' /\ ValidSelection) =>
             user_bar_figure' = user_bar(gss_clean', category, question).value]_vars

C9_Witness ==
    /\ pending = {}
    /\ category = "education"
    /\ question = "relationship"
    /\ user_bar_figure.data # {}
    /\ user_bar_figure.layout.hover_x = "education"

\* C10: every option value of the two dropdowns is a key of the lookup table
\* of title and a column of gss_clean, and neither callback raises for a
\* selection made of option values.
C10_OptionsCovered ==
    /\ CategoryOptions \subseteq DOMAIN c
    /\ QuestionOptions \subseteq DOMAIN q
    /\ (CategoryOptions \cup QuestionOptions) \subseteq Range(gss_clean.columns)
    /\ \A cb \in Callbacks :
          (cb \notin pending /\ ValidSelection) => last_error[cb] = ""

C10_Witness ==
    /\ pending = {}
    /\ category = "region"
    /\ question = "male_breadwinner"
    /\ last_error = [cb \in Callbacks |-> ""]
    /\ title_children # None
    /\ user_bar_figure.layout.hover_x = "region"

====
